---- MODULE Spec2Model ----
(***************************************************************************)
(* Workspace lifecycle of the Daytona TypeScript SDK: Workspace.start,     *)
(* Workspace.stop, Workspace.waitUntilStarted, Workspace.waitUntilStopped  *)
(* (Workspace.ts) and Daytona.create (Daytona.ts), run by one caller       *)
(* against a remote server whose answers and latencies are arbitrary.      *)
(*                                                                         *)
(* Time is the value of Date.now() in milliseconds.  A timeout is held in  *)
(* milliseconds as well (the code's seconds value times 1000), so that     *)
(* `timeout - timeElapsed / 1000` and `elapsed < timeout * 1000` are exact *)
(* integer computations.  The clock advances only while the caller awaits: *)
(* during a remote request and during the sleep between two status reads.  *)
(***************************************************************************)
EXTENDS Integers, Sequences, FiniteSets, TLC

VARIABLES
    pc,             \* position of the caller
    op,             \* the SDK method the caller invoked
    timeout,        \* start/stop: `timeout`; create: `effectiveTimeout` (ms)
    async,          \* create: params.async
    opStart,        \* `startTime` of start / stop / create
    target,         \* state the waiter waits for
    waitTimeout,    \* `timeout` parameter of waitUntilStarted/Stopped (ms)
    waitStart,      \* `startTime` of waitUntilStarted/Stopped
    now,            \* Date.now()
    timeElapsed,    \* `timeElapsed` of start / stop / create
    reads,          \* response.data of the status reads that were answered, in order
    issuedAt,       \* Date.now() at each getWorkspace request, in order
    statusReads,    \* number of getWorkspace requests issued
    mutations,      \* number of startWorkspace/stopWorkspace/createWorkspace requests issued
    deletes,        \* number of deleteWorkspace requests issued
    deleteInFlight, \* a deleteWorkspace request has no response yet
    raised,         \* the message of the error as thrown, before any handler
    result,         \* what the invoked method gave back to the caller
    cachedState,    \* instance.state of the handle
    cachedAutoStop, \* instance.autoStopInterval of the handle (tenths of a minute)
    interval,       \* autoStopInterval argument of create / setAutostopInterval
    autoStopRequests, \* number of setAutostopInterval requests issued
    rejections,     \* the requests of the current call that were rejected, with the axios error, in order
    method,         \* the Process session method the caller invoked
    sessionId,      \* its sessionId argument
    commandId,      \* its commandId argument
    options,        \* the request options of executeSessionCommand: <<timeout in ms>> or <<>>
    sessionRequests, \* number of toolbox requests issued by the current session call
    calls,          \* number of session calls made so far
    returnValue,    \* what the session method returned (response.data)
    sessions,       \* the sessions of the workspace as the toolbox server holds them
    expected,       \* per sessionId, the caller's last successful createSession / deleteSession
    before,         \* `expected` of the sessionId argument when the current call was made
    sleeps,         \* number of sleeps of the wait that have ended
    pair,           \* two waits on two handles running concurrently: per handle, the
                    \* waiter's locals, its pending await and what it has seen
    inline          \* what the last executeSessionCommand returned, while its session is
                    \* not deleted, and how often getSessionCommand has read that command

\* what the handle caches and what setAutostopInterval adds to the state
handleVars == <<cachedState, cachedAutoStop, interval, autoStopRequests>>

\* what the session methods of Process add to the state
sessionVars == <<method, sessionId, commandId, options, sessionRequests, calls,
                 returnValue, sessions, expected, before, inline>>

\* what only the lifecycle methods change
lifecycleVars == <<op, timeout, async, opStart, timeElapsed, target, waitTimeout,
                   waitStart, now, reads, issuedAt, statusReads, mutations,
                   deletes, deleteInFlight, handleVars, sleeps>>

vars == <<pc, op, timeout, async, opStart, timeElapsed, target, waitTimeout,
          waitStart, now, reads, issuedAt, statusReads, mutations, deletes,
          deleteInFlight, raised, result, handleVars, rejections, sessionVars,
          sleeps, pair>>

----------------------------------------------------------------------------
(* Bounds of the model *)

\* largest timeout a caller passes, in poll intervals
MaxTimeout == 3
\* longest a remote request takes, in poll intervals
MaxDelay == 3
\* latest the caller resumes after the event it awaits, in poll intervals
MaxLag == 2
\* largest value of the clock, in poll intervals
MaxClock == 8
\* most status reads one behaviour issues
MaxReads == 4
\* most session calls one behaviour makes
MaxCalls == 4
\* most commands one session holds
MaxCommands == 2

----------------------------------------------------------------------------
(* Constants of the program *)

\* const checkInterval = 100; // Wait 100 ms between checks
checkInterval == 100

\* WorkspaceState values the server reports
States == {"creating", "started", "stopped", "error"}

\* instance.state of a handle: the state the workspace had when the handle was
\* made, here one of the two states a wait can be for
CachedStates == {"started", "stopped"}

\* errorReason texts the server supplies with state 'error'
Reasons == {"out of disk", "Operation timed out"}

\* error.response.data.message of the requests the server rejects
ServerMessages == {"Internal server error"}

\* what the axios instance rejects a request with: a request its `timeout`
\* option aborted ("timeout of ... exceeded"), or a response of the server
AxiosErrors ==
    {[aborted |-> TRUE, data |-> "none"]}
        \cup {[aborted |-> FALSE, data |-> m] : m \in ServerMessages}

\* the response interceptor of the Daytona constructor: the message of the
\* DaytonaError a rejected request throws
InterceptedMessage(error) ==
    IF error.aborted THEN <<"Operation timed out">> ELSE <<error.data>>

\* what createWorkspace is rejected with: as any request, or by the server
\* because the id the caller chose (params.id) is the id of a workspace that
\* exists
CreateErrors == AxiosErrors \cup {[aborted |-> FALSE, data |-> "AlreadyExists"]}

TransportMessages == {InterceptedMessage(e) : e \in CreateErrors}

\* a request sent with the option { timeout: t } is answered only if the answer
\* takes less than t ms; 0 sets no limit
AnsweredInTime(t, d) == t = 0 \/ d < t

Timeouts == {k * checkInterval : k \in -1..MaxTimeout}
Delays == {k * checkInterval : k \in 0..MaxDelay}
Lags == {k * checkInterval : k \in 0..MaxLag}

Pending == [status |-> "pending", message |-> <<>>]
Returned == [status |-> "returned", message |-> <<>>]
Threw(message) == [status |-> "threw", message |-> message]

\* the sessionId values a caller chooses
SessionIds == {"s1", "s2"}

\* the two handles whose waits run concurrently
Handles == {1, 2}

\* a handle none of whose waiters has been called
IdleWait ==
    [pc |-> "idle", timeout |-> 0, startTime |-> 0, reads |-> 0, wake |-> 0,
     d |-> 0, trace |-> <<>>, result |-> Pending]

\* no executeSessionCommand has returned yet
NoInline == [sessionId |-> "none", cmdId |-> 0, exitCode |-> 0, reads |-> 0]

\* what a session method gives back: nothing yet, or Promise<void>
NoValue == [kind |-> "none"]
Void == [kind |-> "void"]

----------------------------------------------------------------------------
(* Messages of the DaytonaError values the methods throw *)

NegativeTimeoutMessage == <<"Timeout must be a non-negative number">>

WaitErrorMessage(tgt, state, errorReason) ==
    IF tgt = "started"
    THEN <<"Workspace failed to start with status: ", state, ", error reason: ", errorReason>>
    ELSE <<"Workspace failed to stop with status: ", state, ", error reason: ", errorReason>>

\* the timeout reported with the message of the argument check
WaitTimeoutMessage_Wrong(tgt) == NegativeTimeoutMessage

WaitTimeoutMessage(tgt) ==
    IF tgt = "started"
    THEN <<"Workspace failed to become ready within the timeout period">>
    ELSE <<"Workspace failed to become stopped within the timeout period">>

CreateTimeoutMessage(effectiveTimeout) ==
    <<"Failed to create and start workspace within ", ToString(effectiveTimeout),
      " seconds. Operation timed out.">>

\* error.message.includes("Operation timed out")
Includes(message, text) == \E i \in 1..Len(message) : message[i] = text

----------------------------------------------------------------------------
(* Pure pieces of the methods *)

\* the timeout check left out
TimeoutRejected_Omitted(t) == FALSE

\* if (timeout < 0) throw new DaytonaError('Timeout must be a non-negative number')
TimeoutRejected(t) == t < 0

\* the whole timeout handed on, the time of the mutating request not subtracted
RemainingTimeout_Whole(t, elapsed) == t

\* the subtraction without the `timeout ?` test, as Daytona.create has it
RemainingTimeout_NoZeroCase(t, elapsed) == t - elapsed

\* start/stop: timeout ? timeout - (timeElapsed / 1000) : 0
RemainingTimeout(t, elapsed) == IF t # 0 THEN t - elapsed ELSE 0

\* create: effectiveTimeout - (timeElapsed / 1000)
CreateRemainingTimeout(effectiveTimeout, elapsed) == effectiveTimeout - elapsed

\* the loop guard without its `timeout === 0` disjunct
LoopGuard_NoZero(t, elapsed) == elapsed < t

\* the loop guard leaving room for the sleep of the iteration
LoopGuard_RoomForSleep(t, elapsed) == t = 0 \/ elapsed + checkInterval < t

\* while (timeout === 0 || (Date.now() - startTime) < (timeout * 1000))
LoopGuard(t, elapsed) == t = 0 \/ elapsed < t

\* create: const effectiveTimeout = params.timeout || timeout
EffectiveTimeout(paramsTimeout, t) ==
    IF Len(paramsTimeout) = 1 /\ paramsTimeout[1] # 0 THEN paramsTimeout[1] ELSE t

\* the message Daytona.create's catch block re-raises
CreateRethrown(message, effectiveTimeout) ==
    IF Includes(message, "Operation timed out")
    THEN CreateTimeoutMessage(effectiveTimeout)
    ELSE message

----------------------------------------------------------------------------
Init ==
    /\ pc = "idle"
    /\ op = "none"
    /\ timeout = 0
    /\ async = FALSE
    /\ opStart = 0
    /\ target = "none"
    /\ waitTimeout = 0
    /\ waitStart = 0
    /\ now = 0
    /\ timeElapsed = 0
    /\ reads = <<>>
    /\ issuedAt = <<>>
    /\ statusReads = 0
    /\ mutations = 0
    /\ deletes = 0
    /\ deleteInFlight = FALSE
    /\ raised = <<>>
    /\ result = Pending
    /\ cachedState \in CachedStates
    /\ cachedAutoStop = 0
    /\ interval = <<>>
    /\ autoStopRequests = 0
    /\ rejections = <<>>
    /\ method = "none"
    /\ sessionId = "none"
    /\ commandId = 0
    /\ options = <<>>
    /\ sessionRequests = 0
    /\ calls = 0
    /\ returnValue = NoValue
    /\ sessions = [id \in SessionIds |-> [live |-> FALSE, commands |-> <<>>]]
    /\ expected = [id \in SessionIds |-> "absent"]
    /\ before = "absent"
    /\ inline = NoInline
    /\ sleeps = 0
    /\ pair = [w \in Handles |-> IdleWait]

\* `throw new DaytonaError(message)` with no handler between it and the caller.
Throw(message) ==
    /\ pc' = "done"
    /\ raised' = message
    /\ result' = Threw(message)

\* The catch block of Daytona.create: deleteWorkspace is fired without being
\* awaited, then the error (or the create-timeout error) is thrown.
CreateCatch(message) ==
    /\ pc' = "done"
    /\ raised' = message
    /\ deletes' = deletes + 1
    /\ deleteInFlight' = TRUE
    /\ result' = Threw(CreateRethrown(message, timeout))

\* Daytona.create without its catch block
Raise_NoCleanup(message) == Throw(message) /\ UNCHANGED <<deletes, deleteInFlight>>

\* An error leaves the waiter or a failed request: inside Daytona.create's try
\* block it reaches the catch block, in start, stop and the waiters the caller.
Raise(message) ==
    IF op = "create"
    THEN CreateCatch(message)
    ELSE Throw(message) /\ UNCHANGED <<deletes, deleteInFlight>>

\* Date.now() moves on by d ms while the caller awaits.
Tick(d) ==
    /\ now + d <= MaxClock * checkInterval
    /\ now' = now + d

----------------------------------------------------------------------------
(* Workspace.waitUntilStarted / Workspace.waitUntilStopped *)

\* waitUntilStopped comparing with 'started', as its copy waitUntilStarted does
ReachedTarget_CopyPaste(state, tgt) == state = "started"

\* if (state === 'started') return   /   if (state === 'stopped') return
ReachedTarget(state, tgt) == state = tgt

\* the check for state 'error' left out
ReachedError_Never(state) == FALSE

\* if (state === 'error') throw ...
ReachedError(state) == state = "error"

\* public async waitUntilStarted(timeout: number = 60), called by the caller
CallWaitUntilStarted(t) ==
    /\ pc = "idle"
    /\ op' = "waitUntilStarted"
    /\ target' = "started"
    /\ waitTimeout' = t
    /\ pc' = "wait"
    /\ UNCHANGED <<timeout, async, opStart, timeElapsed, waitStart, now, reads,
                   issuedAt, statusReads, mutations, deletes, deleteInFlight,
                   raised, result>>
    /\ UNCHANGED <<handleVars, rejections, sessionVars, sleeps, pair>>

\* public async waitUntilStopped(timeout: number = 60), called by the caller
CallWaitUntilStopped(t) ==
    /\ pc = "idle"
    /\ op' = "waitUntilStopped"
    /\ target' = "stopped"
    /\ waitTimeout' = t
    /\ pc' = "wait"
    /\ UNCHANGED <<timeout, async, opStart, timeElapsed, waitStart, now, reads,
                   issuedAt, statusReads, mutations, deletes, deleteInFlight,
                   raised, result>>
    /\ UNCHANGED <<handleVars, rejections, sessionVars, sleeps, pair>>

\* The waiter's entry: the timeout check and `const startTime = Date.now()`.
WaitEnter ==
    /\ pc = "wait"
    /\ IF TimeoutRejected(waitTimeout)
       THEN /\ Raise(NegativeTimeoutMessage)
            /\ UNCHANGED waitStart
       ELSE /\ waitStart' = now
            /\ pc' = "loop"
            /\ UNCHANGED <<deletes, deleteInFlight, raised, result>>
    /\ UNCHANGED <<op, timeout, async, opStart, timeElapsed, target, waitTimeout,
                   now, reads, issuedAt, statusReads, mutations>>
    /\ UNCHANGED <<handleVars, rejections, sessionVars, sleeps, pair>>

\* The loop guard, and either the getWorkspace request of the iteration or the
\* throw that follows the loop.
WaitLoop ==
    /\ pc = "loop"
    /\ IF LoopGuard(waitTimeout, now - waitStart)
       THEN /\ statusReads < MaxReads
            /\ statusReads' = statusReads + 1
            /\ issuedAt' = Append(issuedAt, now)
            /\ pc' = "reading"
            /\ UNCHANGED <<deletes, deleteInFlight, raised, result>>
       ELSE /\ Raise(WaitTimeoutMessage(target))
            /\ UNCHANGED <<statusReads, issuedAt>>
    /\ UNCHANGED <<op, timeout, async, opStart, timeElapsed, target, waitTimeout,
                   waitStart, now, reads, mutations>>
    /\ UNCHANGED <<handleVars, rejections, sessionVars, sleeps, pair>>

\* the waiter deciding on the handle's cached state
ObservedState_Cached(data, cached) == cached

\* const state = response.data.state
ObservedState(data, cached) == data.state

\* the elapsed time tested again when the answer arrives
ExpiredAtAnswer_Tested(t, elapsed) == t # 0 /\ elapsed >= t

\* Between `await getWorkspace` and the tests of the state the clock is not
\* read: an answer is never too late.
ExpiredAtAnswer(t, elapsed) == FALSE

\* getWorkspace (sent without a timeout option) answers after d ms with
\* response.data = data.
ReadResponse(d, data) ==
    /\ pc = "reading"
    /\ Tick(d)
    /\ reads' = Append(reads, data)
    /\ IF ExpiredAtAnswer(waitTimeout, now' - waitStart)
       THEN Raise(WaitTimeoutMessage(target))
       ELSE IF ReachedTarget(ObservedState(data, cachedState), target)
       THEN /\ pc' = "done"
            /\ result' = Returned
            /\ UNCHANGED <<deletes, deleteInFlight, raised>>
       ELSE IF ReachedError(ObservedState(data, cachedState))
       THEN Raise(WaitErrorMessage(target, ObservedState(data, cachedState),
                                   data.errorReason))
       ELSE /\ pc' = "sleeping"
            /\ UNCHANGED <<deletes, deleteInFlight, raised, result>>
    /\ UNCHANGED <<op, timeout, async, opStart, timeElapsed, target, waitTimeout,
                   waitStart, issuedAt, statusReads, mutations>>
    /\ UNCHANGED <<handleVars, rejections, sessionVars, sleeps, pair>>

\* The server rejects getWorkspace after d ms: the interceptor's DaytonaError
\* leaves the waiter.
ReadFailure(d, error) ==
    /\ pc = "reading"
    /\ ~ error.aborted
    /\ Tick(d)
    /\ Raise(InterceptedMessage(error))
    /\ UNCHANGED <<op, timeout, async, opStart, timeElapsed, target, waitTimeout,
                   waitStart, reads, issuedAt, statusReads, mutations>>
    /\ rejections' = Append(rejections, [request |-> "getWorkspace", error |-> error])
    /\ UNCHANGED <<handleVars, sessionVars, sleeps, pair>>

\* the next iteration begun without a sleep
SleepTime_Skipped(lag) == lag

\* setTimeout(resolve, checkInterval): the caller resumes checkInterval ms
\* later, or lag ms after that
SleepTime(lag) == checkInterval + lag

\* await new Promise(resolve => setTimeout(resolve, checkInterval))
Sleep(lag) ==
    /\ pc = "sleeping"
    /\ Tick(SleepTime(lag))
    /\ sleeps' = sleeps + 1
    /\ pc' = "loop"
    /\ UNCHANGED <<op, timeout, async, opStart, timeElapsed, target, waitTimeout,
                   waitStart, reads, issuedAt, statusReads, mutations, deletes,
                   deleteInFlight, raised, result>>
    /\ UNCHANGED <<handleVars, rejections, sessionVars, pair>>

----------------------------------------------------------------------------
(* Workspace.start / Workspace.stop *)

\* The timeout check, `const startTime = Date.now()` and the mutating request.
CallMutating(name, t) ==
    /\ pc = "idle"
    /\ op' = name
    /\ timeout' = t
    /\ IF TimeoutRejected(t)
       THEN /\ Throw(NegativeTimeoutMessage)
            /\ UNCHANGED <<opStart, mutations>>
       ELSE /\ opStart' = now
            /\ mutations' = mutations + 1
            /\ pc' = "mutating"
            /\ UNCHANGED <<raised, result>>
    /\ UNCHANGED <<async, timeElapsed, target, waitTimeout, waitStart, now, reads,
                   issuedAt, statusReads, deletes, deleteInFlight>>
    /\ UNCHANGED <<handleVars, rejections, sessionVars, sleeps, pair>>

\* public async start(timeout: number = 60)
CallStart(t) == CallMutating("start", t)

\* public async stop(timeout: number = 60)
CallStop(t) == CallMutating("stop", t)

\* startWorkspace / stopWorkspace, sent with { timeout: timeout * 1000 }, answers
\* after d ms and the caller resumes lag ms later; the waiter is called with
\* what is left of the timeout.
MutatingResponse(d, lag) ==
    /\ pc = "mutating"
    /\ AnsweredInTime(timeout, d)
    /\ Tick(d + lag)
    /\ timeElapsed' = now' - opStart
    /\ target' = IF op = "start" THEN "started" ELSE "stopped"
    /\ waitTimeout' = RemainingTimeout(timeout, timeElapsed')
    /\ pc' = "wait"
    /\ UNCHANGED <<op, timeout, async, opStart, waitStart, reads, issuedAt,
                   statusReads, mutations, deletes, deleteInFlight, raised, result>>
    /\ UNCHANGED <<handleVars, rejections, sessionVars, sleeps, pair>>

\* startWorkspace / stopWorkspace is rejected: by the server after d ms, or by
\* the request's timeout after timeout ms (d is 0 then).
MutatingFailure(d, error) ==
    /\ pc = "mutating"
    /\ IF error.aborted
       THEN timeout > 0 /\ d = 0 /\ Tick(timeout)
       ELSE AnsweredInTime(timeout, d) /\ Tick(d)
    /\ Raise(InterceptedMessage(error))
    /\ UNCHANGED <<op, timeout, async, opStart, timeElapsed, target, waitTimeout,
                   waitStart, reads, issuedAt, statusReads, mutations>>
    /\ rejections' = Append(rejections, [request |-> IF op = "start" THEN "startWorkspace" ELSE "stopWorkspace", error |-> error])
    /\ UNCHANGED <<handleVars, sessionVars, sleeps, pair>>

----------------------------------------------------------------------------
(* Daytona.create *)

\* autoStopInterval values a caller passes, in tenths of a minute
AutoStopIntervals == {-10, 15, 150}

\* the check without its Number.isInteger test
AutoStopRejected_NoIntegerTest(x) == x < 0

\* !Number.isInteger(x) || x < 0
AutoStopRejected(x) == x % 10 # 0 \/ x < 0

AutoStopMessage == <<"autoStopInterval must be a non-negative integer">>

\* create waiting for 'started' whatever params.async is
WaitsForStart_Always(paramsAsync) == TRUE

\* if (!params.async)
WaitsForStart(paramsAsync) == ~ paramsAsync

\* public async create(params, timeout = 60), up to the createWorkspace request.
\* paramsTimeout and autoStopInterval are <<>> when the field is not set.
CallCreate(t, paramsTimeout, paramsAsync, autoStopInterval) ==
    /\ pc = "idle"
    /\ op' = "create"
    /\ opStart' = now
    /\ timeout' = EffectiveTimeout(paramsTimeout, t)
    /\ async' = paramsAsync
    /\ IF TimeoutRejected(timeout')
       THEN /\ Throw(NegativeTimeoutMessage)
            /\ UNCHANGED mutations
       ELSE IF Len(autoStopInterval) = 1 /\ AutoStopRejected(autoStopInterval[1])
       THEN /\ Throw(AutoStopMessage)
            /\ UNCHANGED mutations
       ELSE /\ mutations' = mutations + 1
            /\ pc' = "creating"
            /\ UNCHANGED <<raised, result>>
    /\ UNCHANGED <<timeElapsed, target, waitTimeout, waitStart, now, reads,
                   issuedAt, statusReads, deletes, deleteInFlight>>
    /\ interval' = autoStopInterval
    /\ UNCHANGED <<cachedState, cachedAutoStop, autoStopRequests, rejections,
                   sessionVars, sleeps, pair>>

\* createWorkspace, sent with { timeout: effectiveTimeout * 1000 }, answers
\* after d ms and the caller resumes lag ms later.
CreateResponse(d, lag) ==
    /\ pc = "creating"
    /\ AnsweredInTime(timeout, d)
    /\ Tick(d + lag)
    /\ IF ~ WaitsForStart(async)
       THEN /\ pc' = "done"
            /\ result' = Returned
            /\ UNCHANGED <<timeElapsed, target, waitTimeout>>
       ELSE /\ timeElapsed' = now' - opStart
            /\ target' = "started"
            /\ waitTimeout' = CreateRemainingTimeout(timeout, timeElapsed')
            /\ pc' = "wait"
            /\ UNCHANGED result
    /\ UNCHANGED <<op, timeout, async, opStart, waitStart, reads, issuedAt,
                   statusReads, mutations, deletes, deleteInFlight, raised>>
    /\ UNCHANGED <<handleVars, rejections, sessionVars, sleeps, pair>>

\* createWorkspace is rejected: by the server after d ms, or by the request's
\* timeout after effectiveTimeout ms (d is 0 then).
CreateFailure(d, error) ==
    /\ pc = "creating"
    /\ IF error.aborted
       THEN timeout > 0 /\ d = 0 /\ Tick(timeout)
       ELSE AnsweredInTime(timeout, d) /\ Tick(d)
    /\ Raise(InterceptedMessage(error))
    /\ UNCHANGED <<op, timeout, async, opStart, timeElapsed, target, waitTimeout,
                   waitStart, reads, issuedAt, statusReads, mutations>>
    /\ rejections' = Append(rejections, [request |-> "createWorkspace", error |-> error])
    /\ UNCHANGED <<handleVars, sessionVars, sleeps, pair>>

\* The deleteWorkspace request of create's catch block gets its answer, which
\* `.catch(() => {})` discards.
DeleteResponse ==
    /\ deleteInFlight
    /\ deleteInFlight' = FALSE
    /\ UNCHANGED <<pc, op, timeout, async, opStart, timeElapsed, target,
                   waitTimeout, waitStart, now, reads, issuedAt, statusReads,
                   mutations, deletes, raised, result>>
    /\ UNCHANGED <<handleVars, rejections, sessionVars, sleeps, pair>>

\* the failure of the cleanup request reaching create's caller
AfterCleanupFailure_Rethrown(res, error) == Threw(InterceptedMessage(error))

\* .catch(() => {}) on the deleteWorkspace promise: what create gave its caller
\* stays as it is
AfterCleanupFailure(res, error) == res

\* The server rejects the deleteWorkspace request of create's catch block.
DeleteRejection(error) ==
    /\ deleteInFlight
    /\ ~ error.aborted
    /\ deleteInFlight' = FALSE
    /\ result' = AfterCleanupFailure(result, error)
    /\ rejections' = Append(rejections, [request |-> "deleteWorkspace", error |-> error])
    /\ UNCHANGED <<pc, op, timeout, async, opStart, timeElapsed, target,
                   waitTimeout, waitStart, now, reads, issuedAt, statusReads,
                   mutations, deletes, raised, handleVars, sessionVars, sleeps, pair>>

----------------------------------------------------------------------------
(* Workspace.setAutostopInterval *)

\* public async setAutostopInterval(interval: number), up to the request
\* the cached value assigned before the request is awaited
CachedWhileRequesting_Eager(cached, x) == x

\* this.instance.autoStopInterval is assigned after the await: while the
\* request is pending it is what it was
CachedWhileRequesting(cached, x) == cached

CallSetAutostopInterval(x) ==
    /\ pc = "idle"
    /\ op' = "setAutostopInterval"
    /\ interval' = <<x>>
    /\ IF AutoStopRejected(x)
       THEN /\ Throw(AutoStopMessage)
            /\ UNCHANGED <<autoStopRequests, cachedAutoStop>>
       ELSE /\ autoStopRequests' = autoStopRequests + 1
            /\ cachedAutoStop' = CachedWhileRequesting(cachedAutoStop, x)
            /\ pc' = "autostop"
            /\ UNCHANGED <<raised, result>>
    /\ UNCHANGED <<timeout, async, opStart, timeElapsed, target, waitTimeout,
                   waitStart, now, reads, issuedAt, statusReads, mutations,
                   deletes, deleteInFlight, cachedState, rejections,
                   sessionVars, sleeps, pair>>

\* setAutostopInterval answers after d ms: this.instance.autoStopInterval = interval
AutoStopResponse(d) ==
    /\ pc = "autostop"
    /\ Tick(d)
    /\ cachedAutoStop' = interval[1]
    /\ pc' = "done"
    /\ result' = Returned
    /\ UNCHANGED <<op, timeout, async, opStart, timeElapsed, target, waitTimeout,
                   waitStart, reads, issuedAt, statusReads, mutations, deletes,
                   deleteInFlight, raised, cachedState, interval,
                   autoStopRequests, rejections, sessionVars, sleeps, pair>>

\* The server rejects setAutostopInterval after d ms.
AutoStopFailure(d, error) ==
    /\ pc = "autostop"
    /\ ~ error.aborted
    /\ Tick(d)
    /\ Throw(InterceptedMessage(error))
    /\ rejections' = Append(rejections, [request |-> "setAutostopInterval", error |-> error])
    /\ UNCHANGED <<op, timeout, async, opStart, timeElapsed, target, waitTimeout,
                   waitStart, reads, issuedAt, statusReads, mutations, deletes,
                   deleteInFlight, handleVars, sessionVars, sleeps, pair>>

----------------------------------------------------------------------------
(* Process session methods (Process.ts): createSession, getSession,         *)
(* getSessionCommand, executeSessionCommand, getSessionCommandLogs,          *)
(* listSessions, deleteSession.  Each sends one request to the toolbox API   *)
(* through the axios instance of the Daytona constructor.  The toolbox       *)
(* server is not part of the SDK: its answers follow the session state       *)
(* machine of the specification (absent -> created -> deleted).              *)

ExitCodes == {0, 1}
CommandIds == 1..MaxCommands
SessionMethods ==
    {"createSession", "getSession", "getSessionCommand", "executeSessionCommand",
     "getSessionCommandLogs", "listSessions", "deleteSession"}

\* the `timeout` argument of executeSessionCommand, in ms (0: left out)
ExecuteTimeouts == {0, checkInterval}

\* timeout ? { timeout: timeout * 1000 } : {}
ExecuteOptions(t) == IF t # 0 THEN <<t>> ELSE <<>>

\* The domain error the toolbox server answers a request with, "none" if it
\* serves the request.
ServerRejects(m, id, cid) ==
    CASE m = "createSession" ->
            IF sessions[id].live THEN "AlreadyExists" ELSE "none"
      [] m = "listSessions" -> "none"
      [] m \in {"getSessionCommand", "getSessionCommandLogs"} ->
            IF sessions[id].live /\ cid \in 1..Len(sessions[id].commands)
            THEN "none" ELSE "NotFound"
      [] OTHER ->
            IF sessions[id].live THEN "none" ELSE "NotFound"

\* The sessions of the server after it has served a request; exitCode is the
\* exit code of the command executeSessionCommand submitted.
ServerApply(m, id, exitCode) ==
    CASE m = "createSession" ->
            [sessions EXCEPT ![id] = [live |-> TRUE, commands |-> <<>>]]
      [] m = "deleteSession" ->
            [sessions EXCEPT ![id] = [live |-> FALSE, commands |-> <<>>]]
      [] m = "executeSessionCommand" ->
            [sessions EXCEPT ![id].commands = Append(@, exitCode)]
      [] OTHER -> sessions

\* response.data of a request the server has served
ServerData(m, id, cid, exitCode) ==
    CASE m = "getSession" ->
            [kind |-> "session", sessionId |-> id, commands |-> sessions[id].commands]
      [] m = "getSessionCommand" ->
            [kind |-> "command", id |-> cid, exitCode |-> sessions[id].commands[cid]]
      [] m = "executeSessionCommand" ->
            [kind |-> "executed", cmdId |-> Len(sessions[id].commands) + 1,
             exitCode |-> exitCode]
      [] m = "getSessionCommandLogs" -> [kind |-> "logs", id |-> cid]
      [] m = "listSessions" ->
            [kind |-> "sessions", ids |-> {i \in SessionIds : sessions[i].live}]
      [] OTHER -> Void

\* what the axios instance rejects a toolbox request with: the abort by the
\* request's timeout option, a failure of the server, or its domain error
SessionErrors ==
    AxiosErrors \cup {[aborted |-> FALSE, data |-> m] : m \in {"AlreadyExists", "NotFound"}}

\* createSession treating a session that exists as created
SessionOutcome_Idempotent(m, error) ==
    IF m = "createSession" /\ error.data = "AlreadyExists"
    THEN Returned
    ELSE Threw(InterceptedMessage(error))

\* executeSessionCommand giving back an empty response for a missing session
SessionOutcome_ExecuteSwallows(m, error) ==
    IF m = "executeSessionCommand" /\ error.data = "NotFound"
    THEN Returned
    ELSE Threw(InterceptedMessage(error))

\* deleteSession ignoring a session that is gone
SessionOutcome_DeleteIgnoresMissing(m, error) ==
    IF m = "deleteSession" /\ error.data = "NotFound"
    THEN Returned
    ELSE Threw(InterceptedMessage(error))

\* None of the methods has a handler around its await: the DaytonaError of the
\* interceptor reaches the caller.
SessionOutcome(m, error) == Threw(InterceptedMessage(error))

\* a second request after a rejected one
RequestsAfterRejection_Retry(m) == 1

\* No method sends a request after the one it awaits.
RequestsAfterRejection(m) == 0

\* the methods returning the axios response instead of its data
ReturnValue_WholeResponse(m, responseData) ==
    IF m \in {"createSession", "deleteSession"}
    THEN Void
    ELSE [kind |-> "response", data |-> responseData]

\* createSession and deleteSession return nothing, the other methods
\* response.data
ReturnValue(m, responseData) ==
    IF m \in {"createSession", "deleteSession"} THEN Void ELSE responseData

\* executeSessionCommand throwing when the command exited with a nonzero code
ResponseOutcome_ThrowsOnExitCode(m, responseData) ==
    IF m = "executeSessionCommand" /\ responseData.exitCode # 0
    THEN Threw(<<"Command failed">>)
    ELSE Returned

\* A served request makes the method return: no method inspects response.data.
ResponseOutcome(m, responseData) == Returned

\* The caller's last successful createSession / deleteSession per sessionId.
Recorded(m, id) ==
    CASE m = "createSession" -> [expected EXCEPT ![id] = "created"]
      [] m = "deleteSession" -> [expected EXCEPT ![id] = "deleted"]
      [] OTHER -> expected

\* The inline result of executeSessionCommand the caller holds after a method
\* has returned value: a new one after executeSessionCommand, none after the
\* deleteSession of its session, one more read after a getSessionCommand of it.
InlineAfter(m, id, cid, value) ==
    CASE m = "executeSessionCommand" ->
            [sessionId |-> id, cmdId |-> value.cmdId, exitCode |-> value.exitCode,
             reads |-> 0]
      [] m = "deleteSession" /\ id = inline.sessionId -> NoInline
      [] m = "getSessionCommand" /\ id = inline.sessionId /\ cid = inline.cmdId ->
            [inline EXCEPT !.reads = @ + 1]
      [] OTHER -> inline

\* The caller invokes a session method, as its first call or after the
\* previous session call has ended: the method sends its request.
CallSession(m, id, cid, t) ==
    /\ pc = "idle" \/ (pc = "done" /\ method # "none")
    /\ calls < MaxCalls
    /\ calls' = calls + 1
    /\ method' = m
    /\ sessionId' = id
    /\ commandId' = cid
    /\ options' = ExecuteOptions(t)
    /\ sessionRequests' = 1
    /\ before' = IF id \in SessionIds THEN expected[id] ELSE "absent"
    /\ pc' = "session"
    /\ raised' = <<>>
    /\ result' = Pending
    /\ returnValue' = NoValue
    /\ rejections' = <<>>
    /\ UNCHANGED <<sessions, expected, inline, lifecycleVars, pair>>

createSession(id) == CallSession("createSession", id, 0, 0)
getSession(id) == CallSession("getSession", id, 0, 0)
getSessionCommand(id, cid) == CallSession("getSessionCommand", id, cid, 0)
executeSessionCommand(id, t) == CallSession("executeSessionCommand", id, 0, t)
getSessionCommandLogs(id, cid) == CallSession("getSessionCommandLogs", id, cid, 0)
listSessions == CallSession("listSessions", "none", 0, 0)
deleteSession(id) == CallSession("deleteSession", id, 0, 0)

\* The server serves the request after d ms: the method returns.
SessionResponse(d, exitCode) ==
    /\ pc = "session"
    /\ ServerRejects(method, sessionId, commandId) = "none"
    /\ IF options = <<>> THEN TRUE ELSE AnsweredInTime(options[1], d)
    /\ IF method = "executeSessionCommand"
       THEN Len(sessions[sessionId].commands) < MaxCommands
       ELSE exitCode = 0
    /\ sessions' = ServerApply(method, sessionId, exitCode)
    /\ returnValue' = ReturnValue(method, ServerData(method, sessionId, commandId, exitCode))
    /\ expected' = Recorded(method, sessionId)
    /\ inline' = InlineAfter(method, sessionId, commandId,
                             ServerData(method, sessionId, commandId, exitCode))
    /\ pc' = "done"
    /\ result' = ResponseOutcome(method, ServerData(method, sessionId, commandId, exitCode))
    /\ UNCHANGED <<raised, rejections, method, sessionId, commandId, options,
                   sessionRequests, calls, before, lifecycleVars, pair>>

\* What a rejected request leaves to the caller.
SessionRejected(error) ==
    /\ rejections' = Append(rejections, [request |-> method, error |-> error])
    /\ sessionRequests' = sessionRequests + RequestsAfterRejection(method)
    /\ result' = SessionOutcome(method, error)
    /\ raised' = InterceptedMessage(error)
    /\ pc' = "done"
    /\ UNCHANGED <<returnValue, expected, method, sessionId, commandId, options,
                   calls, before, inline, lifecycleVars, pair>>

\* The server rejects the request after d ms, with its domain error or with a
\* failure of its own.
SessionFailure(d, error) ==
    /\ pc = "session"
    /\ ~ error.aborted
    /\ error.data \in ServerMessages \cup {ServerRejects(method, sessionId, commandId)}
    /\ IF options = <<>> THEN TRUE ELSE AnsweredInTime(options[1], d)
    /\ SessionRejected(error)
    /\ UNCHANGED sessions

\* The timeout option of executeSessionCommand aborts the request; the server
\* may have taken the command by then (recorded is whether it has).
SessionAborted(error, recorded, exitCode) ==
    /\ pc = "session"
    /\ error.aborted
    /\ options # <<>>
    /\ IF /\ recorded
          /\ ServerRejects(method, sessionId, commandId) = "none"
          /\ Len(sessions[sessionId].commands) < MaxCommands
       THEN sessions' = ServerApply(method, sessionId, exitCode)
       ELSE ~ recorded /\ exitCode = 0 /\ UNCHANGED sessions
    /\ SessionRejected(error)

----------------------------------------------------------------------------
\* response.data of getWorkspace: the state, and the errorReason that comes
\* with state 'error'
Responses ==
    {[state |-> s, errorReason |-> "null"] : s \in States \ {"error"}}
        \cup {[state |-> "error", errorReason |-> r] : r \in Reasons}

OptionalTimeouts == {<<>>} \cup {<<t>> : t \in Timeouts}
OptionalAutoStop == {<<>>} \cup {<<x>> : x \in AutoStopIntervals}

Next ==
    \/ \E t \in Timeouts : CallWaitUntilStarted(t)
    \/ \E t \in Timeouts : CallWaitUntilStopped(t)
    \/ \E t \in Timeouts : CallStart(t)
    \/ \E t \in Timeouts : CallStop(t)
    \/ \E t \in Timeouts, pt \in OptionalTimeouts, a \in BOOLEAN, i \in OptionalAutoStop :
          CallCreate(t, pt, a, i)
    \/ WaitEnter
    \/ WaitLoop
    \/ \E d \in Delays, data \in Responses : ReadResponse(d, data)
    \/ \E d \in Delays, e \in AxiosErrors : ReadFailure(d, e)
    \/ \E lag \in Lags : Sleep(lag)
    \/ \E d \in Delays, lag \in Lags : MutatingResponse(d, lag)
    \/ \E d \in Delays, e \in AxiosErrors : MutatingFailure(d, e)
    \/ \E d \in Delays, lag \in Lags : CreateResponse(d, lag)
    \/ \E d \in Delays, e \in CreateErrors : CreateFailure(d, e)
    \/ DeleteResponse
    \/ \E e \in AxiosErrors : DeleteRejection(e)
    \/ \E x \in AutoStopIntervals : CallSetAutostopInterval(x)
    \/ \E d \in Delays : AutoStopResponse(d)
    \/ \E d \in Delays, e \in AxiosErrors : AutoStopFailure(d, e)
    \/ \E id \in SessionIds : createSession(id)
    \/ \E id \in SessionIds : getSession(id)
    \/ \E id \in SessionIds, cid \in CommandIds : getSessionCommand(id, cid)
    \/ \E id \in SessionIds, t \in ExecuteTimeouts : executeSessionCommand(id, t)
    \/ \E id \in SessionIds, cid \in CommandIds : getSessionCommandLogs(id, cid)
    \/ listSessions
    \/ \E id \in SessionIds : deleteSession(id)
    \/ \E d \in Delays, x \in ExitCodes : SessionResponse(d, x)
    \/ \E d \in Delays, e \in SessionErrors : SessionFailure(d, e)
    \/ \E e \in SessionErrors, r \in BOOLEAN, x \in ExitCodes : SessionAborted(e, r, x)

Spec == Init /\ [][Next]_vars

\* What runs without the remote: the caller resumes after a sleep and goes on
\* from one statement to the next, and the timer of a request sent with a
\* timeout option fires.  No answer of the remote is ever certain.
RequestAborted ==
    \E e \in AxiosErrors :
        e.aborted /\ (MutatingFailure(0, e) \/ CreateFailure(0, e))

CallerStep == WaitEnter \/ WaitLoop \/ (\E lag \in Lags : Sleep(lag)) \/ RequestAborted

FairSpec == Spec /\ WF_vars(CallerStep)

----------------------------------------------------------------------------
(* Two waits on two handles run concurrently by the embedding application:   *)
(* handle 1 in waitUntilStarted, handle 2 in waitUntilStopped.  A waiter     *)
(* runs without interruption from one await to the next; between two awaits  *)
(* of one waiter the other may run.  The clock is the one Date.now() of the  *)
(* process: a pending await ends at its time `wake`, the earliest first.     *)

\* most status reads one of the two concurrent waits issues
MaxPairReads == 3

\* the timeouts the two concurrent waits are called with (ms)
PairTimeouts == {k * checkInterval : k \in -1..2}

\* how long a status read of a concurrent wait takes
PairDelays == {0, checkInterval}

\* how late the sleep of a concurrent wait ends
PairLags == {0}

\* the waiter called on each handle: its target state
PairTarget(w) == IF w = 1 THEN "started" ELSE "stopped"

\* every state but the transitional one, which 'started' / 'stopped' stand in
\* for in the wait for the other
PairStates == {"started", "stopped", "error"}

\* startTime kept in one variable shared by all waits: the last one written
StartTimeOf_Shared(p, w) ==
    LET started == {v \in Handles : p[v].pc # "idle"}
    IN  CHOOSE t \in {p[v].startTime : v \in started} :
            \A v \in started : p[v].startTime <= t

\* const startTime = Date.now(): a local of the call
StartTimeOf(p, w) == p[w].startTime

\* handle w's pending await is the next to end
IsNext(w) ==
    /\ pair[w].pc \in {"reading", "sleeping"}
    /\ \A v \in Handles : pair[v].pc \in {"reading", "sleeping"} => pair[w].wake <= pair[v].wake
    /\ pair[w].wake <= MaxClock * checkInterval

\* The loop guard at clock value t, then the getWorkspace request of the
\* iteration (answered d ms later) or the throw after the loop: p with handle
\* w's record changed accordingly.
PairIterate(p, w, t, d) ==
    IF LoopGuard(p[w].timeout, t - StartTimeOf(p, w))
    THEN [p EXCEPT ![w].pc = "reading", ![w].reads = @ + 1, ![w].wake = t + d, ![w].d = d]
    ELSE [p EXCEPT ![w].pc = "done",
                   ![w].result = Threw(WaitTimeoutMessage(PairTarget(w)))]

\* all that the two concurrent waits leave alone
pairFrame == <<pc, op, timeout, async, opStart, timeElapsed, target, waitTimeout,
               waitStart, reads, issuedAt, statusReads, mutations, deletes,
               deleteInFlight, raised, result, handleVars, rejections, sessionVars,
               sleeps>>

\* The waiter of handle w is called with timeout t and runs up to its first
\* await: the timeout check, startTime, the loop guard, the first request.
PairCall(w, t, d) ==
    /\ op = "none" /\ method = "none"
    /\ pair[w].pc = "idle"
    /\ pair' =
        IF TimeoutRejected(t)
        THEN [pair EXCEPT ![w].pc = "done", ![w].timeout = t,
                          ![w].result = Threw(NegativeTimeoutMessage)]
        ELSE PairIterate([pair EXCEPT ![w].pc = "entered", ![w].timeout = t,
                                      ![w].startTime = now], w, now, d)
    /\ UNCHANGED <<now, pairFrame>>

\* Handle w's status read is answered with state: the waiter returns, throws
\* or begins its sleep, which will end lag ms late.
PairAnswer(w, state, lag) ==
    /\ IsNext(w)
    /\ pair[w].pc = "reading"
    /\ (ReachedTarget(state, PairTarget(w)) \/ ReachedError(state)) => lag = 0
    /\ now' = pair[w].wake
    /\ LET seen == [pair EXCEPT ![w].trace =
                        Append(@, [state |-> state, d |-> pair[w].d, lag |-> lag])]
       IN  pair' =
            IF ReachedTarget(state, PairTarget(w))
            THEN [seen EXCEPT ![w].pc = "done", ![w].result = Returned]
            ELSE IF ReachedError(state)
            THEN [seen EXCEPT ![w].pc = "done",
                    ![w].result = Threw(WaitErrorMessage(PairTarget(w), state, "out of disk"))]
            ELSE [seen EXCEPT ![w].pc = "sleeping", ![w].wake = now' + SleepTime(lag)]
    /\ UNCHANGED pairFrame

\* Handle w's sleep ends: the loop guard, and the next request or the throw.
PairWake(w, d) ==
    /\ IsNext(w)
    /\ pair[w].pc = "sleeping"
    /\ pair[w].reads < MaxPairReads
    /\ now' = pair[w].wake
    /\ pair' = PairIterate(pair, w, now', d)
    /\ UNCHANGED pairFrame

PairNext ==
    \/ \E w \in Handles, t \in PairTimeouts, d \in PairDelays : PairCall(w, t, d)
    \/ \E w \in Handles, state \in PairStates, lag \in PairLags : PairAnswer(w, state, lag)
    \/ \E w \in Handles, d \in PairDelays : PairWake(w, d)

PairSpec == Init /\ [][PairNext]_vars

\* The waiter run alone from its i-th iteration on, elapsed ms after its
\* startTime, against the answers and durations of trace: its result and the
\* number of status reads it has issued when the trace is used up.
RECURSIVE AloneFrom(_, _, _, _, _)
AloneFrom(tgt, t, trace, i, elapsed) ==
    IF ~ LoopGuard(t, elapsed)
    THEN [result |-> Threw(WaitTimeoutMessage(tgt)), reads |-> i - 1]
    ELSE IF i > Len(trace)
    THEN [result |-> Pending, reads |-> i]
    ELSE IF ReachedTarget(trace[i].state, tgt)
    THEN [result |-> Returned, reads |-> i]
    ELSE IF ReachedError(trace[i].state)
    THEN [result |-> Threw(WaitErrorMessage(tgt, trace[i].state, "out of disk")),
          reads |-> i]
    ELSE AloneFrom(tgt, t, trace, i + 1, elapsed + trace[i].d + SleepTime(trace[i].lag))

Alone(tgt, t, trace) ==
    IF TimeoutRejected(t)
    THEN [result |-> Threw(NegativeTimeoutMessage), reads |-> 0]
    ELSE AloneFrom(tgt, t, trace, 1, 0)

TypeOK ==
    /\ pc \in {"idle", "mutating", "creating", "wait", "loop", "reading", "sleeping",
              "autostop", "session", "done"}
    /\ op \in {"none", "start", "stop", "waitUntilStarted", "waitUntilStopped", "create",
              "setAutostopInterval"}
    /\ target \in {"none", "started", "stopped"}
    /\ reads \in Seq(Responses)
    /\ statusReads \in 0..MaxReads
    /\ Len(issuedAt) = statusReads
    /\ result.status \in {"pending", "returned", "threw"}
    /\ method \in SessionMethods \cup {"none"}
    /\ sessionId \in SessionIds \cup {"none"}
    /\ calls \in 0..MaxCalls
    /\ \A id \in SessionIds :
          /\ sessions[id].live \in BOOLEAN
          /\ sessions[id].commands \in Seq(ExitCodes)
          /\ Len(sessions[id].commands) <= MaxCommands
          /\ expected[id] \in {"absent", "created", "deleted"}
    /\ op = "none" \/ method = "none"

----------------------------------------------------------------------------
(* Vocabulary of the properties *)

\* the waiter has been called
WaiterCalled == target # "none"

\* the first k status reads were answered with neither the target state nor 'error'
NonTerminalUpTo(k) ==
    \A i \in 1..k : reads[i].state # target /\ reads[i].state # "error"

\* every status read issued so far was answered with a state
AllReadsAnswered == Len(reads) = statusReads

\* the three failures of the lifecycle methods, told apart by their message
IsInvalidArgument(message) == message = <<"Timeout must be a non-negative number">>
IsTimeout(message) ==
    message \in {<<"Workspace failed to become ready within the timeout period">>,
                 <<"Workspace failed to become stopped within the timeout period">>}
IsRemoteStateError(message) ==
    /\ Len(message) = 4
    /\ message[1] \in {"Workspace failed to start with status: ",
                       "Workspace failed to stop with status: "}

IsStartStop == op \in {"start", "stop"}
IsWaitCall == op \in {"waitUntilStarted", "waitUntilStopped"}

\* the timeout the caller passed to the method it invoked
CallerTimeout == IF IsWaitCall THEN waitTimeout ELSE timeout

----------------------------------------------------------------------------
(* C1: a negative timeout passed to start, stop, waitUntilStarted or        *)
(* waitUntilStopped makes the call fail with the invalid-argument error, and *)
(* no remote request (start, stop, status read, delete) is ever issued.      *)
C1_NegativeTimeoutNoRemoteCall ==
    ((IsStartStop \/ IsWaitCall) /\ CallerTimeout < 0) =>
        /\ statusReads = 0 /\ mutations = 0 /\ deletes = 0
        /\ pc \in {"wait", "done"}
        /\ pc = "done" => (result.status = "threw" /\ IsInvalidArgument(result.message))

C1_Witness ==
    /\ op = "stop" /\ timeout < 0 /\ pc = "done"
    /\ result.status = "threw" /\ IsInvalidArgument(result.message)

(* C2: the wait returns at the first status read answered with the target    *)
(* state and issues no read after it: if the first k-1 answers are neither   *)
(* the target nor 'error' and the k-th is the target, the wait has succeeded *)
(* with exactly k status reads.                                              *)
C2_ReturnsAtFirstTargetRead ==
    \A k \in 1..Len(reads) :
        (reads[k].state = target /\ NonTerminalUpTo(k - 1)) =>
            /\ pc = "done" /\ result = Returned
            /\ statusReads = k /\ Len(reads) = k

C2_Witness ==
    /\ op = "waitUntilStarted" /\ waitTimeout > 0
    /\ Len(reads) = 3
    /\ reads[1].state = "creating" /\ reads[2].state = "creating"
    /\ reads[3].state = "started"
    /\ statusReads = 3 /\ result = Returned

(* C3: when a status read is answered with state 'error' the wait fails at   *)
(* once with the remote-state error that carries the server's errorReason,   *)
(* and no further status read is issued, whatever is left of the timeout.    *)
C3_ErrorStateFailsAtOnce ==
    \A k \in 1..Len(reads) :
        (reads[k].state = "error" /\ NonTerminalUpTo(k - 1)) =>
            /\ pc = "done" /\ result.status = "threw"
            /\ raised = WaitErrorMessage(target, "error", reads[k].errorReason)
            /\ IsRemoteStateError(raised)
            /\ statusReads = k /\ Len(reads) = k

C3_Witness ==
    /\ op = "waitUntilStarted" /\ waitTimeout = MaxTimeout * checkInterval
    /\ Len(reads) = 2
    /\ reads[1].state = "creating" /\ reads[2].state = "error"
    /\ now - waitStart < waitTimeout
    /\ statusReads = 2 /\ result.status = "threw"

(* C4: a wait with timeout > 0 whose status reads were all answered, none    *)
(* with the target state or 'error', ends with the Timeout failure; and the  *)
(* three failures are never reported as each other: Timeout only when the    *)
(* budget of a bounded wait has elapsed with no terminal answer, the remote  *)
(* state error only after an 'error' answer, invalid argument only for a     *)
(* negative timeout and before any status read.                              *)
C4_TimeoutIsItsOwnFailure ==
    /\ (pc = "done" /\ WaiterCalled /\ waitTimeout > 0 /\ AllReadsAnswered
            /\ NonTerminalUpTo(Len(reads))) =>
          /\ result.status = "threw"
          /\ IsTimeout(raised)
    /\ IsTimeout(raised) =>
          /\ ~ IsRemoteStateError(raised) /\ ~ IsInvalidArgument(raised)
          /\ waitTimeout > 0 /\ now - waitStart >= waitTimeout
          /\ AllReadsAnswered /\ NonTerminalUpTo(Len(reads))
    /\ IsRemoteStateError(raised) =>
          /\ ~ IsTimeout(raised) /\ ~ IsInvalidArgument(raised)
          /\ Len(reads) > 0 /\ reads[Len(reads)].state = "error"
    /\ IsInvalidArgument(raised) =>
          /\ ~ IsTimeout(raised) /\ ~ IsRemoteStateError(raised)
          /\ statusReads = 0
          /\ waitTimeout < 0 \/ timeout < 0

C4_Witness ==
    /\ op = "waitUntilStopped" /\ waitTimeout > 0 /\ pc = "done"
    /\ statusReads = 2 /\ Len(reads) = 2 /\ NonTerminalUpTo(2)
    /\ IsTimeout(raised)

(* C5: a waiter called with timeout 0 never fails with Timeout: at its loop  *)
(* guard it always goes on to the next status read, however many answers     *)
(* were non-terminal and however much time has passed, and it ends only by   *)
(* an answer with the target state (success), an answer 'error' or a failed  *)
(* request.                                                                  *)
C5_ZeroTimeoutNeverTimesOut ==
    (IsWaitCall /\ waitTimeout = 0) =>
        /\ ~ IsTimeout(raised) /\ ~ IsInvalidArgument(raised)
        /\ pc = "loop" => LoopGuard(waitTimeout, now - waitStart)
        /\ (pc = "done" /\ result = Returned) =>
              reads[Len(reads)].state = target
        /\ (pc = "done" /\ result.status = "threw") =>
              IsRemoteStateError(raised) \/ raised \in TransportMessages

C5_Witness ==
    /\ IsWaitCall /\ waitTimeout = 0
    /\ pc = "reading" /\ statusReads = 4 /\ Len(reads) = 3 /\ NonTerminalUpTo(3)
    /\ now - waitStart >= MaxTimeout * checkInterval

(* C6: start / stop with timeout > 0 issue the mutating request before any   *)
(* status read and call the waiter with timeout minus the time the mutating  *)
(* request took; a Timeout failure of the operation comes when timeout has   *)
(* elapsed since the operation began, and every status read was issued       *)
(* before that; with a positive remainder, a wait whose reads were all       *)
(* answered with non-terminal states ends in that Timeout failure.           *)
C6_WaiterGetsRemainingBudget ==
    (IsStartStop /\ timeout > 0) =>
        /\ statusReads > 0 => (mutations = 1 /\ WaiterCalled)
        /\ WaiterCalled => waitTimeout = timeout - timeElapsed
        /\ IsTimeout(raised) =>
              /\ now - opStart >= timeout
              /\ \A i \in 1..Len(issuedAt) : issuedAt[i] - opStart < timeout
        /\ (pc = "done" /\ WaiterCalled /\ timeElapsed < timeout
                /\ AllReadsAnswered /\ NonTerminalUpTo(Len(reads))) =>
              (result.status = "threw" /\ IsTimeout(result.message))

C6_Witness ==
    /\ op = "start" /\ timeout = 3 * checkInterval /\ timeElapsed = 2 * checkInterval
    /\ waitTimeout = checkInterval
    /\ pc = "done" /\ statusReads = 1 /\ NonTerminalUpTo(Len(reads))
    /\ result.status = "threw" /\ IsTimeout(result.message)
    /\ now - opStart < timeout + 2 * checkInterval

(* C7: in start / stop with timeout > 0, when the mutating request took      *)
(* longer than the timeout, the operation fails with the Timeout failure     *)
(* (not with the invalid-argument failure) and issues no status read.        *)
C7_NegativeRemainderIsTimeout ==
    (IsStartStop /\ timeout > 0 /\ WaiterCalled /\ timeElapsed > timeout
        /\ pc = "done") =>
        /\ statusReads = 0
        /\ result.status = "threw"
        /\ IsTimeout(result.message) /\ ~ IsInvalidArgument(result.message)

(* C8: in start / stop with timeout > 0, when the mutating request took      *)
(* exactly the timeout, the operation cannot end before the waiter has       *)
(* issued a status read.                                                     *)
C8_ZeroRemainderPollsOnce ==
    (IsStartStop /\ timeout > 0 /\ WaiterCalled /\ timeElapsed = timeout) =>
        /\ pc = "loop" /\ statusReads = 0 => LoopGuard(waitTimeout, now - waitStart)
        /\ pc = "done" => statusReads >= 1

C8_Witness ==
    /\ IsStartStop /\ timeout > 0 /\ WaiterCalled /\ timeElapsed = timeout
    /\ pc = "done" /\ statusReads = 1 /\ result.status = "threw"

(* C9: start(0) / stop(0) wait without a bound: whatever time the mutating   *)
(* request took, the waiter is called with timeout 0, the operation never    *)
(* fails with Timeout or invalid argument, and at its loop guard the waiter  *)
(* always goes on to the next status read.                                   *)
C9_StartStopZeroIsUnbounded ==
    (IsStartStop /\ timeout = 0) =>
        /\ WaiterCalled => waitTimeout = 0
        /\ ~ IsTimeout(raised) /\ ~ IsInvalidArgument(raised)
        /\ pc = "loop" => LoopGuard(waitTimeout, now - waitStart)
        /\ (pc = "done" /\ result.status = "threw") =>
              IsRemoteStateError(raised) \/ raised \in TransportMessages

C9_Witness ==
    /\ op = "stop" /\ timeout = 0 /\ timeElapsed = MaxDelay * checkInterval
    /\ pc = "reading" /\ statusReads = 3 /\ NonTerminalUpTo(Len(reads))
    /\ now - waitStart >= 2 * checkInterval

(* C10: create(params, 0) without params.async (effective timeout 0) waits   *)
(* for 'started' without a bound once the create request has succeeded: it   *)
(* never fails with invalid argument or Timeout, and it issues the cleanup   *)
(* delete only after an 'error' answer or a failed request.                  *)
C10_CreateZeroIsUnbounded ==
    (op = "create" /\ timeout = 0 /\ ~ async) =>
        /\ ~ IsInvalidArgument(raised) /\ ~ IsTimeout(raised)
        /\ deletes > 0 => (IsRemoteStateError(raised) \/ raised \in TransportMessages)

----------------------------------------------------------------------------
\* the failure of the argument check of autoStopInterval
IsInvalidInterval(message) ==
    message = <<"autoStopInterval must be a non-negative integer">>

\* a request of the given name was rejected
WasRejected(request) ==
    \E i \in 1..Len(rejections) : rejections[i].request = request

\* the model can take the wait no further: the clock or the number of status
\* reads is at its bound
AtBound ==
    \/ statusReads = MaxReads
    \/ now + checkInterval > MaxClock * checkInterval

(* C11: when Daytona.create fails after its argument checks (the create      *)
(* request is rejected, or the wait for 'started' fails), a deleteWorkspace  *)
(* request has been issued by the time the failure reaches the caller.       *)
C11_FailedCreateAttemptsDelete ==
    (op = "create" /\ mutations = 1 /\ result.status = "threw") =>
        /\ pc = "done"
        /\ deletes = 1

C11_Witness ==
    /\ op = "create" /\ result.status = "threw" /\ deletes = 1
    /\ IsRemoteStateError(raised) /\ statusReads = 2

C13_BoundedCallsComplete ==
    [](((IsStartStop \/ IsWaitCall) /\ CallerTimeout > 0) => <>(pc = "done" \/ AtBound))

\* the message of the DaytonaError a rejected request gives, written out
RejectionMessage(error) ==
    IF error.aborted THEN <<"Operation timed out">> ELSE <<error.data>>

\* a rejected request is the last of its kind: no status read follows a
\* rejected status read, no request follows the rejected request of a session
\* method, and every session method has issued exactly one request
NeverRetried ==
    /\ \A i \in 1..Len(rejections) : \A j \in 1..Len(rejections) :
          rejections[i].request = rejections[j].request => i = j
    /\ WasRejected("getWorkspace") => Len(reads) = statusReads - 1
    /\ (WasRejected("startWorkspace") \/ WasRejected("stopWorkspace")
            \/ WasRejected("createWorkspace")) => mutations = 1 /\ statusReads = 0
    /\ WasRejected("setAutostopInterval") => autoStopRequests = 1
    /\ method # "none" => sessionRequests = 1

(* C14 as stated: the failure of any rejected remote call reaches the caller  *)
(* with the message the axios instance gave it, and the call is never         *)
(* retried: a rejected status read ends the wait with no further read, and    *)
(* every session method issues exactly one request per call.                  *)
C14_TransportFailureAsIs ==
    /\ \A i \in 1..Len(rejections) :
          /\ pc = "done"
          /\ result = Threw(RejectionMessage(rejections[i].error))
    /\ NeverRetried

(* C14, amended: the same, except in Daytona.create, whose catch block        *)
(* replaces a failure whose message includes 'Operation timed out' by its own *)
(* timeout error and never reports the failure of its cleanup delete.         *)
C14_TransportFailureAsIsButCreate ==
    /\ \A i \in 1..Len(rejections) :
          rejections[i].request # "deleteWorkspace" =>
              /\ pc = "done"
              /\ raised = RejectionMessage(rejections[i].error)
              /\ result.status = "threw"
              /\ result.message =
                    IF op = "create"
                       /\ \E k \in 1..Len(raised) : raised[k] = "Operation timed out"
                    THEN <<"Failed to create and start workspace within ",
                           ToString(timeout), " seconds. Operation timed out.">>
                    ELSE raised
    /\ NeverRetried

C14_Witness ==
    /\ op = "waitUntilStarted" /\ WasRejected("getWorkspace")
    /\ statusReads = 2 /\ Len(reads) = 1
    /\ result = Threw(<<"Internal server error">>)

(* C15: start, stop and the waiters decide nothing from the handle's cached  *)
(* instance.state: start / stop issue the mutating request whatever it is,   *)
(* the waiter never ends without a status read, and it returns only when the *)
(* last status read was answered with the target state.                      *)
C15_CachedStateNeverDecides ==
    /\ (IsStartStop /\ timeout >= 0 /\ pc # "idle") => mutations = 1
    /\ (WaiterCalled /\ waitTimeout >= 0 /\ pc = "done") => statusReads >= 1
    /\ (WaiterCalled /\ pc = "done" /\ result = Returned) =>
          /\ Len(reads) = statusReads
          /\ reads[Len(reads)].state = target
    /\ (WaiterCalled /\ pc = "done" /\ IsRemoteStateError(raised)) =>
          reads[Len(reads)].state = "error"

C15_Witness ==
    /\ op = "start" /\ cachedState = "started" /\ mutations = 1
    /\ Len(reads) = 2 /\ reads[1].state = "stopped" /\ reads[2].state = "started"
    /\ result = Returned

(* C16: setAutostopInterval with a negative or non-integer interval, and     *)
(* create with a negative (effective) timeout or a negative or non-integer   *)
(* autoStopInterval, fail with an invalid-argument error and no remote       *)
(* request of any kind is issued.                                            *)
C16_ValidationBeforeRequests ==
    LET bad(x) == x < 0 \/ x % 10 # 0
    IN  (\/ op = "setAutostopInterval" /\ bad(interval[1])
         \/ op = "create" /\ timeout < 0
         \/ op = "create" /\ Len(interval) = 1 /\ bad(interval[1])) =>
            /\ pc = "done" /\ result.status = "threw"
            /\ IsInvalidArgument(result.message) \/ IsInvalidInterval(result.message)
            /\ mutations = 0 /\ deletes = 0 /\ statusReads = 0 /\ autoStopRequests = 0

C16_Witness ==
    /\ op = "setAutostopInterval" /\ interval = <<15>>
    /\ result.status = "threw" /\ IsInvalidInterval(result.message)

(* C17: create with params.async returns when the create request is         *)
(* answered: the waiter is never called and no status read is issued.        *)
C17_AsyncCreateDoesNotWait ==
    (op = "create" /\ async) =>
        /\ statusReads = 0 /\ ~ WaiterCalled
        /\ pc \in {"creating", "done"}
        /\ (pc = "done" /\ mutations = 1 /\ rejections = <<>>) => result = Returned

C17_Witness ==
    /\ op = "create" /\ async /\ mutations = 1 /\ now > 0
    /\ pc = "done" /\ result = Returned

----------------------------------------------------------------------------
(* Vocabulary of the session properties *)

\* the current session call has ended
SessionCallEnded == method # "none" /\ pc = "done"

\* the call failed with the given domain error of the server, or with a
\* failure of the transport (a server failure, or the abort of the request)
FailedWith(domainError) ==
    /\ result.status = "threw"
    /\ result.message \in {<<domainError>>, <<"Internal server error">>,
                            <<"Operation timed out">>}
    /\ returnValue = NoValue

\* the server answered the current call with the given domain error
AnsweredWith(domainError) ==
    /\ Len(rejections) = 1
    /\ rejections[1].error = [aborted |-> FALSE, data |-> domainError]

(* C18: createSession with a sessionId whose last successful session call of *)
(* the caller was a createSession (no deleteSession since) never returns: it *)
(* fails, with AlreadyExists whenever the server answers the request, and    *)
(* that error is what the caller gets.                                       *)
C18_SecondCreateFails ==
    (SessionCallEnded /\ method = "createSession" /\ before = "created") =>
        /\ FailedWith("AlreadyExists")
        /\ AnsweredWith("AlreadyExists") => result = Threw(<<"AlreadyExists">>)
        /\ ~ AnsweredWith("NotFound")
        /\ expected[sessionId] = "created" /\ sessions[sessionId].live

C18_Witness ==
    /\ calls = 2 /\ method = "createSession" /\ before = "created"
    /\ sessionId = "s1" /\ expected["s2"] = "absent"
    /\ result = Threw(<<"AlreadyExists">>)

(* C19: executeSessionCommand with a sessionId the caller never created      *)
(* fails, with NotFound whenever the server answers, after its one request;  *)
(* and in every state a session that holds a command is one the caller       *)
(* created and has not deleted.                                              *)
C19_NoCommandWithoutSession ==
    /\ (SessionCallEnded /\ method = "executeSessionCommand" /\ before = "absent") =>
          /\ FailedWith("NotFound")
          /\ AnsweredWith("NotFound") => result = Threw(<<"NotFound">>)
          /\ ~ AnsweredWith("AlreadyExists")
          /\ sessionRequests = 1
          /\ sessions[sessionId].commands = <<>>
    /\ \A id \in SessionIds :
          sessions[id].commands # <<>> => expected[id] = "created" /\ sessions[id].live

C19_Witness ==
    /\ method = "executeSessionCommand" /\ before = "absent" /\ sessionId = "s2"
    /\ result = Threw(<<"NotFound">>) /\ sessionRequests = 1
    /\ sessions["s1"].commands # <<>>

(* C20: once deleteSession(id) has succeeded and until createSession(id)     *)
(* succeeds again, executeSessionCommand, getSession, getSessionCommand,     *)
(* getSessionCommandLogs and deleteSession with that id fail, with NotFound  *)
(* whenever the server answers.                                              *)
C20_DeletedSessionIsGone ==
    (SessionCallEnded /\ before = "deleted"
        /\ method \in {"executeSessionCommand", "getSession", "getSessionCommand",
                        "getSessionCommandLogs", "deleteSession"}) =>
        /\ FailedWith("NotFound")
        /\ AnsweredWith("NotFound") => result = Threw(<<"NotFound">>)
        /\ ~ AnsweredWith("AlreadyExists")
        /\ expected[sessionId] = "deleted" /\ ~ sessions[sessionId].live

C20_Witness ==
    /\ calls = 3 /\ method = "deleteSession" /\ before = "deleted"
    /\ result = Threw(<<"NotFound">>)

(* C21: executeSessionCommand returns the response of a served request as    *)
(* it is, whatever the command's exit code: a nonzero exitCode is a normal   *)
(* return value.  The call fails only when its request was rejected, and it  *)
(* fails with 'Operation timed out' exactly when the supplied timeout        *)
(* aborted the request.                                                      *)
C21_ExitCodeIsNotAnError ==
    (SessionCallEnded /\ method = "executeSessionCommand") =>
        \/ /\ result = Returned
           /\ rejections = <<>>
           /\ returnValue.kind = "executed"
           /\ returnValue.exitCode \in {0, 1}
           /\ returnValue.exitCode = sessions[sessionId].commands[returnValue.cmdId]
        \/ /\ result.status = "threw"
           /\ returnValue = NoValue
           /\ Len(rejections) = 1
           /\ rejections[1].request = "executeSessionCommand"
           /\ (result.message = <<"Operation timed out">>) <=> rejections[1].error.aborted
           /\ rejections[1].error.aborted => options # <<>>

C21_Witness ==
    /\ method = "executeSessionCommand" /\ options # <<>>
    /\ result = Returned /\ returnValue.kind = "executed" /\ returnValue.exitCode = 1

(* C22: while the session of the last executeSessionCommand that returned is *)
(* not deleted, every getSessionCommand of the commandId it returned that    *)
(* returns gives the record of that command with the exitCode the            *)
(* submission returned inline, the first time and every time after.          *)
C22_RoundTrip ==
    (/\ SessionCallEnded /\ method = "getSessionCommand" /\ result = Returned
     /\ sessionId = inline.sessionId /\ commandId = inline.cmdId) =>
        /\ inline.reads >= 1
        /\ returnValue = [kind |-> "command", id |-> inline.cmdId,
                          exitCode |-> inline.exitCode]

C22_Witness ==
    /\ SessionCallEnded /\ method = "getSessionCommand" /\ result = Returned
    /\ sessionId = inline.sessionId /\ commandId = inline.cmdId
    /\ inline.reads = 2 /\ inline.exitCode = 1
    /\ returnValue.kind = "command" /\ returnValue.exitCode = 1

(* C23: for every interleaving of a waitUntilStarted on one handle and a     *)
(* waitUntilStopped on another, whenever a waiter is at an await of a status *)
(* read or has ended, its result and its number of status reads are those    *)
(* of the same waiter run alone against the answers it has received and the  *)
(* durations of its own awaits.                                              *)
C23_ConcurrentWaitsIndependent ==
    \A w \in Handles :
        pair[w].pc \in {"reading", "done"} =>
            LET alone == Alone(PairTarget(w), pair[w].timeout, pair[w].trace)
            IN  /\ pair[w].result = alone.result
                /\ pair[w].reads = alone.reads

C23_Witness ==
    /\ pair[1].pc = "done" /\ pair[2].pc = "done"
    /\ pair[1].startTime = 0 /\ pair[2].startTime > 0
    /\ pair[1].result = Returned /\ pair[1].reads = 2
    /\ pair[2].result = Threw(<<"Workspace failed to become stopped within the timeout period">>)
    /\ pair[2].reads = 2
    /\ pair[1].timeout > 0

(* C24: inside a wait every iteration issues one status read and no other    *)
(* request; a read answered with a state that is neither the target nor      *)
(* 'error' is followed by one sleep of at least 100 ms before the next read, *)
(* so the reads and the sleeps alternate; and the waiter sends no mutating   *)
(* request.                                                                  *)
C24_ReadSleepAlternate ==
    WaiterCalled =>
        /\ Len(issuedAt) = statusReads
        /\ pc = "loop" => statusReads = sleeps
        /\ pc \in {"reading", "sleeping"} => statusReads = sleeps + 1
        /\ pc = "done" => statusReads \in {sleeps, sleeps + 1}
        /\ pc = "sleeping" => Len(reads) = statusReads
        /\ sleeps <= Len(reads)
        /\ \A i \in 1..sleeps : reads[i].state \notin {target, "error"}
        /\ \A i \in 1..(Len(reads) - 1) : reads[i].state \notin {target, "error"}
        /\ \A i \in 1..(statusReads - 1) : issuedAt[i + 1] - issuedAt[i] >= 100
        /\ mutations = (IF IsWaitCall THEN 0 ELSE 1)
        /\ autoStopRequests = 0
        /\ deletes > 0 => op = "create" /\ pc = "done"

C24_Witness ==
    /\ op = "waitUntilStarted" /\ pc = "reading"
    /\ statusReads = 3 /\ sleeps = 2
    /\ reads[1].state = "stopped" /\ reads[2].state = "creating"
    /\ issuedAt = <<0, 100, 200>>

(* C25: start / stop with a timeout > 0 stay bounded by it whatever the      *)
(* mutating request took: beyond the one status read that is always issued,  *)
(* no status read is issued once the timeout has elapsed since the operation *)
(* began, so a remote that never reports the target state or 'error' gets    *)
(* finitely many reads before the operation fails.                           *)
C25_PositiveTimeoutStaysBounded ==
    (IsStartStop /\ timeout > 0) =>
        \A i \in 2..statusReads : issuedAt[i] - opStart < timeout

(* C26: when the create request of Daytona.create is rejected because the    *)
(* id the caller supplied is in use, no delete request is issued: a failed   *)
(* create does not delete a workspace that existed before the call.          *)
C26_NoDeleteOfExistingWorkspace ==
    (/\ op = "create"
     /\ \E i \in 1..Len(rejections) :
            /\ rejections[i].request = "createWorkspace"
            /\ rejections[i].error.data = "AlreadyExists") =>
        deletes = 0 /\ ~ deleteInFlight

(* C27: when a failed Daytona.create has delivered its error to the caller,  *)
(* no delete request issued by that create is still without a response.      *)
C27_CleanupDoneBeforeError ==
    (op = "create" /\ pc = "done" /\ result.status = "threw") => ~ deleteInFlight

C29_LateAnswerStillCounts ==
    (WaiterCalled /\ pc = "done" /\ statusReads >= 1 /\ Len(reads) = statusReads) =>
        LET last == reads[Len(reads)]
        IN  /\ last.state = target => result = Returned
            /\ last.state = "error" =>
                  /\ Len(raised) = 4
                  /\ raised[2] = "error" /\ raised[4] = last.errorReason
            /\ last.state \notin {target, "error"} =>
                  raised \in {<<"Workspace failed to become ready within the timeout period">>,
                              <<"Workspace failed to become stopped within the timeout period">>}

C29_Witness ==
    /\ op = "waitUntilStarted" /\ waitTimeout = 100 /\ pc = "done"
    /\ issuedAt = <<0>> /\ now = 200
    /\ reads = <<[state |-> "started", errorReason |-> "null"]>>
    /\ result = Returned

(* C30: the autoStopInterval cached on the handle changes only when the      *)
(* setAutostopInterval request has succeeded: after a successful call it is  *)
(* the requested interval; while the request is pending, and after a failed  *)
(* argument check or a rejected request, it is what it was before the call.  *)
C30_CacheFollowsRemoteSuccess ==
    op = "setAutostopInterval" =>
        cachedAutoStop = (IF pc = "done" /\ result = Returned THEN interval[1] ELSE 0)

C30_Witness ==
    /\ op = "setAutostopInterval" /\ pc = "done" /\ result = Returned
    /\ interval = <<150>> /\ cachedAutoStop = 150 /\ autoStopRequests = 1

====
